---- MODULE Spec2Model ----
(***************************************************************************)
(* Cross-tab leader election (TabManager) and the WebSocket session        *)
(* manager it gates (WebSocketWrapper) of xMatiStudio's studio-ui.         *)
(*                                                                         *)
(* Part 1 models TabManager.ts: every browser tab owns one TabManager;     *)
(* tabs talk over a BroadcastChannel, or over one localStorage record      *)
(* when the browser has no BroadcastChannel.  Every callback of the class  *)
(* (constructor, channel.onmessage, the PING_TIMEOUT and 300 ms timers,    *)
(* the heartbeat interval, the close timer, the storage listener,          *)
(* cleanup/destroy) is one action; tabs run on separate event loops, so    *)
(* the callbacks of different tabs interleave freely.                      *)
(*                                                                         *)
(* Part 2 models WebSocketWrapper/index.tsx, the component App mounts: its *)
(* refs and state are the fields of ws, every render closure that a        *)
(* socket handler or a timer captured is kept with the socket, and each    *)
(* React commit, socket event and timer callback is one action.  The value *)
(* of useTabManager() is an input of the component.                        *)
(***************************************************************************)
EXTENDS Integers, Sequences, FiniteSets, TLC

\* ---------------------------------------------------------------- bounds
NumPeers == 3          \* browser tabs in the model
TabsOpened == 2        \* tabs opened under TabSpec (ElectSpec opens all of them)
MaxNow == 6            \* the clock stops advancing here
MaxQueue == 2          \* messages in flight per (sender, receiver) pair
MaxDup == 2            \* handleDuplicateTab runs counted per tab (saturating)
MaxBoundedSockets == 6 \* WebSockets the bounded-retry wrapper creates in a run
MaxCeiling == 2        \* largest reconnectAttempts prop passed to it
MaxSockets == 3        \* WebSocket objects one WebSocketWrapper creates
reconnectAttempts == 1 \* the reconnectAttempts prop handed to WebSocketWrapper
NumFingerprints == 2   \* distinct values of getSessionKey() in one session

\* ------------------------------------------------------ program constants
TAB_TIMEOUT == 5       \* TabManager.ts:15, in clock ticks of one second

Peers == 1..NumPeers
NoRecord == [tabId |-> 0, timestamp |-> 0]

\* A value of localStorage[TAB_ID_KEY] on which JSON.parse (or the
\* destructuring of its result) throws.
Unparsable == [tabId |-> 0, timestamp |-> -1]

Min(a, b) == IF a < b THEN a ELSE b

VARIABLES
  hasBroadcastChannel, \* typeof BroadcastChannel !== 'undefined' in this browser
  now,                 \* Date.now(), in clock ticks (see Tick)
  tabPhase,            \* per tab: "unborn" | "running" | "destroyed" | "closed"
  tabTs,               \* per tab: the timestamp embedded in tabId
  isActive,            \* per tab: TabManager.isActive
  useLocalStorage,     \* per tab: TabManager.useLocalStorage
  receivedPong,        \* per tab: TabManager.receivedPong
  pingResponses,       \* per tab: TabManager.pingResponses (tabs that ponged)
  channelOpen,         \* per tab: TabManager.channel !== null
  heartbeatOn,         \* per tab: TabManager.heartbeatInterval !== null or running
  pingTimer,           \* per tab: the PING_TIMEOUT setTimeout is pending
  confirmTimer,        \* per tab: the 300 ms setTimeout is pending
  closePending,        \* per tab: a 2000 ms attemptCloseTab timer is pending
  listening,           \* per tab: the 'storage' listener is registered
  dupRuns,             \* per tab: times handleDuplicateTab ran past its guard
  chan,                \* chan[s][r]: BroadcastChannel messages in flight s -> r
  record,              \* localStorage[TAB_ID_KEY], parsed; NoRecord when absent
  evq,                 \* per tab: StorageEvents queued for its listener
  claimsReceived,      \* per tab: the tabs whose 'claim' its onmessage has handled
  ws,                  \* the WebSocketWrapper instance (fields: see NewWrapper)
  secure,              \* sessionStorage behind secureSessionStorage (see NewStorage)
  bounded              \* the bounded-retry WebSocketWrapper (see NewBounded)

tabVars == <<hasBroadcastChannel, now, tabPhase, tabTs, isActive, useLocalStorage,
             receivedPong, pingResponses, channelOpen, heartbeatOn, pingTimer,
             confirmTimer, closePending, listening, dupRuns, chan, record, evq,
             claimsReceived>>

vars == <<tabVars, ws, secure, bounded>>

\* ----------------------------------------------------- transport helpers

\* BroadcastChannel.postMessage: one copy to every other tab whose channel
\* object exists now; never to the sender.
postMessage(c, s, m) ==
  [x \in Peers |-> [r \in Peers |->
     IF x = s /\ r # s /\ channelOpen[r] THEN Append(c[x][r], m) ELSE c[x][r]]]

\* The model keeps at most MaxQueue messages in flight per pair.
ChanFits(c) == \A s \in Peers : \A r \in Peers : Len(c[s][r]) <= MaxQueue

\* A tab's page still runs scripts.
Alive(p) == tabPhase[p] \in {"running", "destroyed"}

\* localStorage.setItem / removeItem on TAB_ID_KEY by tab p: last write wins,
\* every other tab with a 'storage' listener is notified of a changed value.
StorageWrite(p, v) ==
  /\ record' = v
  /\ evq' = [r \in Peers |->
       IF r # p /\ listening[r] /\ Alive(r) /\ v # record
         THEN Append(evq[r], v) ELSE evq[r]]
  /\ \A r \in Peers : Len(evq'[r]) <= MaxQueue

\* JSON.parse(value) and the destructuring of tabId and timestamp succeed.
JSONparses(rec) == rec # Unparsable

\* A record that always counts as stale.
NeverFresh(rec) == FALSE

\* Date.now() - timestamp < TAB_TIMEOUT
Fresh(rec) == now - rec.timestamp < TAB_TIMEOUT

\* ------------------------------------------------------- TabManager code

\* requestFocusOnExistingTab: posts {type: 'focus_request'} when a channel exists.
requestFocusOnExistingTab(p, c) ==
  IF channelOpen[p] THEN postMessage(c, p, "focus_request") ELSE c

\* handleDuplicateTab's early return.
DuplicateGuard(p) == isActive[p]

\* handleDuplicateTab, starting from channel contents c: sets chan', dupRuns',
\* closePending'.  It never touches isActive.
handleDuplicateTab(p, c) ==
  IF DuplicateGuard(p)
    THEN /\ chan' = c
         /\ UNCHANGED <<dupRuns, closePending>>
    ELSE /\ chan' = requestFocusOnExistingTab(p, c)
         /\ dupRuns' = [dupRuns EXCEPT ![p] = Min(@ + 1, MaxDup)]
         /\ closePending' = [closePending EXCEPT ![p] = TRUE]

\* updateHeartbeat on the broadcast transport, with isActive = active.
HeartbeatChan(p, c, active) ==
  IF ~useLocalStorage[p] /\ channelOpen[p] /\ active
    THEN postMessage(c, p, "heartbeat") ELSE c

\* updateHeartbeat: sets chan', record', evq'.
updateHeartbeat(p, active) ==
  IF useLocalStorage[p]
    THEN /\ StorageWrite(p, [tabId |-> p, timestamp |-> now])
         /\ UNCHANGED chan
    ELSE /\ chan' = HeartbeatChan(p, chan, active)
         /\ UNCHANGED <<record, evq>>

\* An activation that takes the leadership away from every other tab.
activateAlone(p, useLS) ==
  /\ isActive' = [q \in Peers |-> q = p]
  /\ heartbeatOn' = [heartbeatOn EXCEPT ![p] = TRUE]
  /\ IF useLS
       THEN /\ StorageWrite(p, [tabId |-> p, timestamp |-> now])
            /\ UNCHANGED chan
       ELSE /\ chan' = IF channelOpen[p]
                         THEN postMessage(postMessage(chan, p, "heartbeat"), p, "activated")
                         ELSE chan
            /\ UNCHANGED <<record, evq>>

\* activateTab: sets isActive', heartbeatOn', chan', record', evq'.
activateTab(p, useLS) ==
  /\ isActive' = [isActive EXCEPT ![p] = TRUE]
  /\ heartbeatOn' = [heartbeatOn EXCEPT ![p] = TRUE]
  /\ IF useLS
       THEN /\ StorageWrite(p, [tabId |-> p, timestamp |-> now])
            /\ UNCHANGED chan
       ELSE /\ chan' = IF channelOpen[p]
                         THEN postMessage(postMessage(chan, p, "heartbeat"), p, "activated")
                         ELSE chan
            /\ UNCHANGED <<record, evq>>

\* The constructor on a browser with BroadcastChannel: generateTabId, open
\* the channel, post ping and claim, arm the PING_TIMEOUT timer.
initializeBroadcastChannel(p) ==
  /\ tabTs' = [tabTs EXCEPT ![p] = now]
  /\ channelOpen' = [channelOpen EXCEPT ![p] = TRUE]
  /\ chan' = postMessage(postMessage(chan, p, "ping"), p, "claim")
  /\ pingTimer' = [pingTimer EXCEPT ![p] = TRUE]
  /\ UNCHANGED <<isActive, useLocalStorage, heartbeatOn, confirmTimer, listening,
                 record, evq>>

\* The constructor on a browser without BroadcastChannel.
initializeLocalStorage(p) ==
  /\ tabTs' = [tabTs EXCEPT ![p] = now]
  /\ useLocalStorage' = [useLocalStorage EXCEPT ![p] = TRUE]
  /\ IF record # NoRecord /\ JSONparses(record) /\ Fresh(record)
       THEN \* a fresh record: double check after 300 ms, no listener
            /\ confirmTimer' = [confirmTimer EXCEPT ![p] = TRUE]
            /\ UNCHANGED <<isActive, heartbeatOn, listening, record, evq, chan>>
       ELSE /\ activateTab(p, TRUE)
            /\ listening' = [listening EXCEPT ![p] = TRUE]
            /\ UNCHANGED confirmTimer
  /\ UNCHANGED <<channelOpen, pingTimer>>

\* new TabManager().  Tabs are numbered in the order they are opened.
initialize(p) ==
  /\ tabPhase[p] = "unborn"
  /\ \A q \in Peers : q < p => tabPhase[q] # "unborn"
  /\ tabPhase' = [tabPhase EXCEPT ![p] = "running"]
  /\ IF hasBroadcastChannel THEN initializeBroadcastChannel(p)
                            ELSE initializeLocalStorage(p)
  /\ ChanFits(chan')
  /\ UNCHANGED <<ws, secure, bounded, claimsReceived, hasBroadcastChannel, now, receivedPong, pingResponses,
                 closePending, dupRuns>>

\* case 'ping': answer when active or strictly older than the pinger.
\* A rule under which only the leader answers.
LeaderOnly(r, s) == isActive[r]

PongRule(r, s) == isActive[r] \/ (tabTs[s] # 0 /\ tabTs[r] < tabTs[s])

\* A rule under which every claim of another tab makes the receiver yield.
AnyClaim(r, s) == s # r

\* case 'claim': yield when the claimer is strictly older.
ClaimRule(r, s) == s # r /\ tabTs[s] # 0 /\ tabTs[r] > tabTs[s]

\* channel.onmessage of tab r for the oldest message in flight from tab s.
onmessage(s, r) ==
  /\ s # r
  /\ chan[s][r] # <<>>
  /\ channelOpen[r]
  /\ LET m == Head(chan[s][r])
         c == [chan EXCEPT ![s][r] = Tail(@)]
     IN  CASE m = "ping" ->
                /\ chan' = IF PongRule(r, s) THEN postMessage(c, r, "pong") ELSE c
                /\ UNCHANGED <<receivedPong, pingResponses, dupRuns, closePending>>
           [] m = "pong" ->
                /\ receivedPong' = [receivedPong EXCEPT ![r] = TRUE]
                /\ pingResponses' = [pingResponses EXCEPT ![r] = @ \cup {s}]
                /\ IF ~isActive[r]
                     THEN handleDuplicateTab(r, c)
                     ELSE chan' = c /\ UNCHANGED <<dupRuns, closePending>>
           [] m = "heartbeat" ->
                /\ IF ~isActive[r]
                     THEN handleDuplicateTab(r, c)
                     ELSE chan' = c /\ UNCHANGED <<dupRuns, closePending>>
                /\ UNCHANGED <<receivedPong, pingResponses>>
           [] m = "claim" ->
                /\ IF ClaimRule(r, s)
                     THEN handleDuplicateTab(r, c)
                     ELSE chan' = c /\ UNCHANGED <<dupRuns, closePending>>
                /\ UNCHANGED <<receivedPong, pingResponses>>
           [] OTHER ->   \* 'focus_request': window.focus(); 'activated': no case
                /\ chan' = c
                /\ UNCHANGED <<receivedPong, pingResponses, dupRuns, closePending>>
  /\ claimsReceived' = IF Head(chan[s][r]) = "claim"
                          THEN [claimsReceived EXCEPT ![r] = @ \cup {s}]
                          ELSE claimsReceived
  /\ ChanFits(chan')
  /\ UNCHANGED <<ws, secure, bounded, hasBroadcastChannel, now, tabPhase, tabTs, isActive, useLocalStorage,
                 channelOpen, heartbeatOn, pingTimer, confirmTimer, listening,
                 record, evq>>

\* The flags of timers that stay armed after a callback ran (setInterval).
TimerKept(armed, p) == armed

\* setTimeout is one-shot: the timer of tab p is gone once its callback ran.
TimerFired(armed, p) == [armed EXCEPT ![p] = FALSE]

\* The PING_TIMEOUT callback's first test.
\* A window that counts as silent whatever arrived.
AlwaysSilent(p) == TRUE

\* The test of the PING_TIMEOUT callback.
NoResponse(p) == ~receivedPong[p] /\ pingResponses[p] = {}

\* PING_TIMEOUT has elapsed since the constructor ran: the clock has moved.
PingElapsed(p) == now > tabTs[p]

\* The PING_TIMEOUT callback (cleanup does not cancel this timer).
PingTimeout(p) ==
  /\ Alive(p)
  /\ pingTimer[p]
  /\ PingElapsed(p)
  /\ pingTimer' = TimerFired(pingTimer, p)
  /\ IF NoResponse(p)
       THEN /\ activateTab(p, useLocalStorage[p])
            /\ UNCHANGED <<dupRuns, closePending>>
       ELSE /\ IF receivedPong[p] /\ ~isActive[p]
                 THEN handleDuplicateTab(p, chan)
                 ELSE UNCHANGED <<chan, dupRuns, closePending>>
            /\ UNCHANGED <<isActive, heartbeatOn, record, evq>>
  /\ ChanFits(chan')
  /\ UNCHANGED <<ws, secure, bounded, claimsReceived, hasBroadcastChannel, now, tabPhase, tabTs, useLocalStorage,
                 receivedPong, pingResponses, channelOpen, confirmTimer, listening>>

\* The 300 ms double check of initializeLocalStorage.
ConfirmTimeout(p) ==
  /\ Alive(p)
  /\ confirmTimer[p]
  /\ confirmTimer' = TimerFired(confirmTimer, p)
  /\ IF record # NoRecord /\ ~JSONparses(record)
       THEN \* JSON.parse throws in the callback, which no try encloses
            UNCHANGED <<isActive, heartbeatOn, record, evq, chan, dupRuns,
                        closePending>>
     ELSE IF record # NoRecord /\ Fresh(record) /\ record.tabId # p
       THEN /\ handleDuplicateTab(p, chan)
            /\ UNCHANGED <<isActive, heartbeatOn, record, evq>>
       ELSE /\ activateTab(p, useLocalStorage[p])
            /\ UNCHANGED <<dupRuns, closePending>>
  /\ UNCHANGED <<ws, secure, bounded, claimsReceived, hasBroadcastChannel, now, tabPhase, tabTs, useLocalStorage,
                 receivedPong, pingResponses, channelOpen, pingTimer, listening>>

\* One tick of the setInterval started by activateTab.
HeartbeatTick(p) ==
  /\ Alive(p)
  /\ heartbeatOn[p]
  /\ updateHeartbeat(p, isActive[p])
  /\ ChanFits(chan')
  /\ UNCHANGED <<ws, secure, bounded, claimsReceived, hasBroadcastChannel, now, tabPhase, tabTs, isActive, useLocalStorage,
                 receivedPong, pingResponses, channelOpen, heartbeatOn, pingTimer,
                 confirmTimer, closePending, listening, dupRuns>>

\* handleVisibilityChange, the tab becoming visible.
handleVisibilityChange(p) ==
  /\ tabPhase[p] = "running"
  /\ isActive[p]
  /\ updateHeartbeat(p, isActive[p])
  /\ ChanFits(chan')
  /\ UNCHANGED <<ws, secure, bounded, claimsReceived, hasBroadcastChannel, now, tabPhase, tabTs, isActive, useLocalStorage,
                 receivedPong, pingResponses, channelOpen, heartbeatOn, pingTimer,
                 confirmTimer, closePending, listening, dupRuns>>

\* handleStorageEvent for the oldest queued event: its only call is
\* handleDuplicateTab, reached with isActive = TRUE.
handleStorageEvent(p) ==
  /\ Alive(p)
  /\ listening[p]
  /\ evq[p] # <<>>
  /\ evq' = [evq EXCEPT ![p] = Tail(@)]
  /\ LET ev == Head(evq[p])
     IN  IF /\ ev # NoRecord /\ JSONparses(ev)
            /\ ev.tabId # p /\ isActive[p] /\ now - ev.timestamp < TAB_TIMEOUT
           THEN handleDuplicateTab(p, chan)
           ELSE UNCHANGED <<chan, dupRuns, closePending>>
  /\ UNCHANGED <<ws, secure, bounded, claimsReceived, hasBroadcastChannel, now, tabPhase, tabTs, isActive, useLocalStorage,
                 receivedPong, pingResponses, channelOpen, heartbeatOn, pingTimer,
                 confirmTimer, listening, record>>

\* A cleanup test that does not look at the owner of the record.
RemovesAny(p) == isActive[p] /\ useLocalStorage[p] /\ record # NoRecord

\* cleanup's localStorage branch: removes the record only when active and owner.
CleanupRemoves(p) ==
  /\ isActive[p] /\ useLocalStorage[p]
  /\ record # NoRecord /\ JSONparses(record) /\ record.tabId = p

\* A cleanup that stops nothing.
leakyCleanup(p) ==
  UNCHANGED <<heartbeatOn, channelOpen, chan, listening, record, evq>>

\* cleanup: sets heartbeatOn', channelOpen', chan', listening', record', evq'.
cleanup(p) ==
  /\ heartbeatOn' = [heartbeatOn EXCEPT ![p] = FALSE]
  /\ channelOpen' = [channelOpen EXCEPT ![p] = FALSE]
  /\ chan' = [s \in Peers |-> [r \in Peers |-> IF r = p THEN <<>> ELSE chan[s][r]]]
  /\ listening' = [listening EXCEPT ![p] = FALSE]
  /\ IF CleanupRemoves(p)
       THEN StorageWrite(p, NoRecord)
       ELSE UNCHANGED record /\ evq' = evq

\* destroy(), called by useTabManager's unmount; the page keeps running.
destroy(p) ==
  /\ Alive(p)
  /\ cleanup(p)
  /\ tabPhase' = [tabPhase EXCEPT ![p] = "destroyed"]
  /\ UNCHANGED <<ws, secure, bounded, claimsReceived, hasBroadcastChannel, now, tabTs, isActive, useLocalStorage,
                 receivedPong, pingResponses, pingTimer, confirmTimer,
                 closePending, dupRuns>>

\* The page unloads: 'beforeunload' runs cleanup, then every timer dies.
Unload(p) ==
  /\ cleanup(p)
  /\ tabPhase' = [tabPhase EXCEPT ![p] = "closed"]
  /\ pingTimer' = [pingTimer EXCEPT ![p] = FALSE]
  /\ confirmTimer' = [confirmTimer EXCEPT ![p] = FALSE]
  /\ closePending' = [closePending EXCEPT ![p] = FALSE]
  /\ UNCHANGED <<ws, secure, bounded, claimsReceived, hasBroadcastChannel, now, tabTs, isActive, useLocalStorage,
                 receivedPong, pingResponses, dupRuns>>

\* The user closes or reloads the tab.
beforeunload(p) ==
  /\ Alive(p)
  /\ Unload(p)

\* attemptCloseTab: window.close() works only on script-opened windows, so
\* the browser either unloads the page or ignores the call.
attemptCloseTab(p) ==
  /\ Alive(p)
  /\ closePending[p]
  /\ \/ Unload(p)
     \/ /\ closePending' = [closePending EXCEPT ![p] = FALSE]
        /\ UNCHANGED <<ws, secure, bounded, claimsReceived, hasBroadcastChannel, now, tabPhase, tabTs, isActive,
                       useLocalStorage, receivedPong, pingResponses, channelOpen,
                       heartbeatOn, pingTimer, confirmTimer, listening, dupRuns,
                       chan, record, evq>>

\* Time passes.  On the storage transport a tick is one second (the unit of
\* TAB_TIMEOUT).  On the broadcast transport the code reads the clock only
\* in generateTabId and compares the stamps, so a tick there is any lapse
\* of time of a millisecond or more, and the clock moves only past a value
\* that some tab carries as its stamp.
Tick ==
  /\ now < MaxNow
  /\ hasBroadcastChannel => \E p \in Peers : tabTs[p] = now
  /\ now' = now + 1
  /\ UNCHANGED <<ws, secure, bounded, claimsReceived, hasBroadcastChannel, tabPhase, tabTs, isActive, useLocalStorage,
                 receivedPong, pingResponses, channelOpen, heartbeatOn, pingTimer,
                 confirmTimer, closePending, listening, dupRuns, chan, record, evq>>

\* Other code of the origin, or the user in the developer tools, stores
\* under TAB_ID_KEY a value that is no JSON; listening tabs get the event.
foreignWrite ==
  /\ ~hasBroadcastChannel
  /\ record # Unparsable
  /\ record' = Unparsable
  /\ evq' = [r \in Peers |->
       IF listening[r] /\ Alive(r) THEN Append(evq[r], Unparsable) ELSE evq[r]]
  /\ \A r \in Peers : Len(evq'[r]) <= MaxQueue
  /\ UNCHANGED <<ws, secure, bounded, claimsReceived, hasBroadcastChannel, now, tabPhase, tabTs, isActive, useLocalStorage,
                 receivedPong, pingResponses, channelOpen, heartbeatOn, pingTimer,
                 confirmTimer, closePending, listening, dupRuns, chan>>

\* The system clock is set (time synchronisation, the user): Date.now() is
\* wall-clock time, and its next value can be an earlier one.
ClockSet ==
  /\ \E t \in 1..MaxNow : t # now /\ now' = t
  /\ UNCHANGED <<ws, secure, bounded, claimsReceived, hasBroadcastChannel, tabPhase, tabTs, isActive, useLocalStorage,
                 receivedPong, pingResponses, channelOpen, heartbeatOn, pingTimer,
                 confirmTimer, closePending, listening, dupRuns, chan, record, evq>>

\* A field initialiser that makes every new TabManager a leader.
AssumedLeader == TRUE

\* private isActive: boolean = false
InitialIsActive == FALSE

\* No tab is open yet; the first `opened` tabs will be.
TabInit(opened) ==
  /\ hasBroadcastChannel \in BOOLEAN
  /\ now = 1
  /\ tabPhase = [p \in Peers |-> IF p <= opened THEN "unborn" ELSE "closed"]
  /\ tabTs = [p \in Peers |-> 0]
  /\ isActive = [p \in Peers |-> InitialIsActive]
  /\ useLocalStorage = [p \in Peers |-> FALSE]
  /\ receivedPong = [p \in Peers |-> FALSE]
  /\ pingResponses = [p \in Peers |-> {}]
  /\ channelOpen = [p \in Peers |-> FALSE]
  /\ heartbeatOn = [p \in Peers |-> FALSE]
  /\ pingTimer = [p \in Peers |-> FALSE]
  /\ confirmTimer = [p \in Peers |-> FALSE]
  /\ closePending = [p \in Peers |-> FALSE]
  /\ listening = [p \in Peers |-> FALSE]
  /\ dupRuns = [p \in Peers |-> 0]
  /\ chan = [s \in Peers |-> [r \in Peers |-> <<>>]]
  /\ record = NoRecord
  /\ evq = [p \in Peers |-> <<>>]
  /\ claimsReceived = [p \in Peers |-> {}]

TabNext ==
  \/ Tick
  \/ \E p \in Peers : initialize(p)
  \/ \E s \in Peers : \E r \in Peers : onmessage(s, r)
  \/ \E p \in Peers : PingTimeout(p)
  \/ \E p \in Peers : ConfirmTimeout(p)
  \/ \E p \in Peers : HeartbeatTick(p)
  \/ \E p \in Peers : handleVisibilityChange(p)
  \/ \E p \in Peers : handleStorageEvent(p)
  \/ \E p \in Peers : destroy(p)
  \/ \E p \in Peers : beforeunload(p)
  \/ \E p \in Peers : attemptCloseTab(p)

\* --------------------------------------------- WebSocketWrapper (index.tsx)

\* What a render closes over: connect, the socket handlers and the timer
\* callback created in a render keep these values for good.
RenderEnv(w) == [isActiveTab |-> w.isActiveTab, enabled |-> w.enabled, userId |-> w.userId]

NoEnv == [isActiveTab |-> FALSE, enabled |-> FALSE, userId |-> FALSE]

\* A socket whose close event was handled and whose timer has fired.
DeadSocket == [state |-> "CLOSED", env |-> NoEnv, regs |-> 0]

\* Inbound frames.  json: what JSON.parse makes of event.data ("object": a
\* value whose .type can be read, "null": the JSON text null, "invalid": no
\* JSON).  type "undefined": no type property.  flag: message === 'Blocked'
\* for BLOCK_STATUS, message for MAINTENANCE_STATUS.
Frame(j, t, a, f) == [json |-> j, type |-> t, alert |-> a, flag |-> f]

NoFrame == Frame("none", "none", FALSE, FALSE)

KnownTypes == {"REGISTER_SUCCESS", "DUPLICATE_SESSION", "FORCE_LOGOUT",
               "BLOCK_STATUS", "MAINTENANCE_STATUS", "error"}

Frames ==
  {Frame("object", t, FALSE, FALSE) :
      t \in {"REGISTER_SUCCESS", "DUPLICATE_SESSION", "error", "PING", "undefined"}}
  \cup {Frame("object", "FORCE_LOGOUT", a, FALSE) : a \in BOOLEAN}
  \cup {Frame("object", t, FALSE, f) :
          t \in {"BLOCK_STATUS", "MAINTENANCE_STATUS"}, f \in BOOLEAN}
  \cup {Frame("null", "none", FALSE, FALSE), Frame("invalid", "none", FALSE, FALSE)}

\* What callers hand to sendMessage: a string, or an object with its JSON text.
Payloads == {[isString |-> TRUE, value |-> "hello"],
             [isString |-> FALSE, value |-> "obj"]}

\* JSON.stringify on the objects above.
stringify(v) == IF v = "obj" THEN "{\"a\":1}" ELSE "null"

\* No sendMessage call in the last step.
NoCall == [called |-> FALSE, sent |-> FALSE, sock |-> 0, data |-> ""]

\* The component before it is mounted: useState initialisers and useRef
\* values with nothing saved in session storage.  retries, rx, out and tx
\* are history: reconnect attempts since the last open, the frame handled by
\* the last step, the alert/logout calls that step made, and the sendMessage
\* call of the last step with what it handed to WebSocket.send.
NewWrapper(en, uid) ==
  [phase |-> "new", isActiveTab |-> FALSE, enabled |-> en, userId |-> uid,
   socketRef |-> 0, socks |-> <<>>, timers |-> {},
   reconnectCount |-> 0, isConnecting |-> FALSE, hasRegistered |-> FALSE,
   isConnected |-> FALSE, showBlockedScreen |-> FALSE, showMaintenanceScreen |-> FALSE,
   accountBlocked |-> FALSE, maintenance |-> FALSE,
   retries |-> 0, rx |-> NoFrame, out |-> <<>>, tx |-> NoCall]

\* The timers reconnectTimeoutRef.current holds: the ref is never assigned.
reconnectTimeoutRef == {}

\* socketRef.current?.readyState === WebSocket.OPEN
readyStateOpen(w) == w.socketRef # 0 /\ w.socks[w.socketRef].state = "OPEN"

\* A close() call that leaves the socket as it is.
keepOpen(w, i) == w

\* WebSocket.close(): an open socket starts the closing handshake, a socket
\* that is still connecting fails (error and close events follow); both
\* report readyState CLOSING.
close(w, i) ==
  [w EXCEPT !.socks[i].state =
     CASE @ = "CONNECTING" -> "FAILING"
       [] @ = "OPEN" -> "CLOSING"
       [] OTHER -> @]

\* React drops state updates of a component that is no longer mounted.
setIsConnected(w, v) ==
  IF w.phase = "mounted" THEN [w EXCEPT !.isConnected = v] ELSE w

\* A handler that neither renders nor persists.
noUpdate(w, status) == w

\* A handler that renders the blocked screen and persists nothing.
screenOnly(w, blocked) == [w EXCEPT !.showBlockedScreen = blocked]

onMaintenanceUpdate(w, status) ==
  [(IF w.phase = "mounted" THEN [w EXCEPT !.showMaintenanceScreen = status] ELSE w)
     EXCEPT !.maintenance = status]

onBlockStatus(w, blocked) ==
  [(IF w.phase = "mounted" THEN [w EXCEPT !.showBlockedScreen = blocked] ELSE w)
     EXCEPT !.accountBlocked = blocked]

sendRegistration(w, userIdToRegister) ==
  IF readyStateOpen(w) /\ userIdToRegister /\ ~w.hasRegistered
    THEN [w EXCEPT !.socks[w.socketRef].regs = @ + 1, !.hasRegistered = TRUE]
    ELSE w

\* connect as created by a render with closure env; throws: new WebSocket(url)
\* raises.
connect(w, env, throws) ==
  IF ~env.isActiveTab THEN w
  ELSE IF ~env.enabled \/ w.isConnecting \/ readyStateOpen(w) THEN w
  ELSE LET a == IF w.socketRef # 0
                  THEN [close(w, w.socketRef) EXCEPT !.socketRef = 0] ELSE w
           b == [a EXCEPT !.isConnecting = TRUE]
       IN  IF throws
             THEN [b EXCEPT !.isConnecting = FALSE]
             ELSE [b EXCEPT !.socks = Append(@, [state |-> "CONNECTING",
                                                 env |-> env, regs |-> 0]),
                            !.socketRef = Len(b.socks) + 1]

\* An onopen that registers whether or not a userId was supplied.
onopenAnonymous(w, i) ==
  LET a == setIsConnected(onMaintenanceUpdate(w, FALSE), TRUE)
      b == [a EXCEPT !.reconnectCount = 0, !.isConnecting = FALSE, !.retries = 0]
  IN  sendRegistration(b, TRUE)

\* ws.onopen of socket i.
onopen(w, i) ==
  LET env == w.socks[i].env
      a == setIsConnected(onMaintenanceUpdate(w, FALSE), TRUE)
      b == [a EXCEPT !.reconnectCount = 0, !.isConnecting = FALSE, !.retries = 0]
  IN  IF env.userId THEN sendRegistration(b, env.userId) ELSE b

\* ws.onerror.
onerror(w) == onMaintenanceUpdate([w EXCEPT !.isConnecting = FALSE], TRUE)

\* ws.onclose of socket i: the timer goes into a local variable.
onclose(w, i) ==
  [setIsConnected(w, FALSE) EXCEPT !.isConnecting = FALSE, !.hasRegistered = FALSE,
                                   !.timers = @ \cup {i}]

\* A branch that only breaks.
IgnoredCase(f) == <<>>

\* A branch that logs out without a notice.
SilentLogout(f) == <<"logout">>

\* The branches of the switch in ws.onmessage: the alert/logout calls made.
RegisterSuccessCase(f) == <<>>
DuplicateSessionCase(f) == <<"alert", "logout">>
ForceLogoutCase(f) == IF f.alert THEN <<"alert", "logout">> ELSE <<"logout">>
ErrorCase(f) == <<"alert", "logout">>
DefaultCase(f) == <<"alert", "logout">>

\* ws.onmessage: JSON.parse or the read of data.type throws on a frame that
\* is no JSON or is null, and nothing else runs.
onmessage_ws(w, f) ==
  IF f.json # "object" THEN [w EXCEPT !.rx = f, !.out = <<>>]
  ELSE CASE f.type = "REGISTER_SUCCESS" -> [w EXCEPT !.rx = f, !.out = RegisterSuccessCase(f)]
         [] f.type = "DUPLICATE_SESSION" -> [w EXCEPT !.rx = f, !.out = DuplicateSessionCase(f)]
         [] f.type = "FORCE_LOGOUT" -> [w EXCEPT !.rx = f, !.out = ForceLogoutCase(f)]
         [] f.type = "BLOCK_STATUS" -> [onBlockStatus(w, f.flag) EXCEPT !.rx = f, !.out = <<>>]
         [] f.type = "MAINTENANCE_STATUS" ->
              [onMaintenanceUpdate(w, f.flag) EXCEPT !.rx = f, !.out = <<>>]
         [] f.type = "error" -> [w EXCEPT !.rx = f, !.out = ErrorCase(f)]
         [] OTHER -> [w EXCEPT !.rx = f, !.out = DefaultCase(f)]

\* The cleanup of useEffect [isActiveTab].
cleanup_ws(w) ==
  LET a == [w EXCEPT !.timers = @ \ reconnectTimeoutRef]
      b == IF a.socketRef # 0 THEN [close(a, a.socketRef) EXCEPT !.socketRef = 0] ELSE a
  IN  [b EXCEPT !.isConnecting = FALSE, !.reconnectCount = 0]

\* The body of useEffect [isActiveTab].
effectMount(w, env, throws) == IF env.enabled THEN connect(w, env, throws) ELSE w

\* The body of useEffect [isActiveTab, enabled].
effectTabStatus(w, env, throws) ==
  IF env.isActiveTab /\ env.enabled
    THEN IF ~readyStateOpen(w) THEN connect(w, env, throws) ELSE w
    ELSE IF ~env.isActiveTab /\ w.socketRef # 0
           THEN [setIsConnected([close(w, w.socketRef) EXCEPT !.socketRef = 0], FALSE)
                   EXCEPT !.hasRegistered = FALSE]
           ELSE w

\* A step that handles no frame.
Quiet(w) == [w EXCEPT !.rx = NoFrame, !.out = <<>>, !.tx = NoCall]

\* A socket reference that is not null.
SocketExists(w) == w.socketRef # 0

\* The test of sendMessage.
CanSend(w) == w.socketRef # 0 /\ w.isConnected /\ readyStateOpen(w)

\* sendMessage(message) of the current render.
sendMessage_ws(w, message) ==
  IF CanSend(w)
    THEN [w EXCEPT !.tx = [called |-> TRUE, sent |-> TRUE, sock |-> w.socketRef,
                           data |-> IF message.isString THEN message.value
                                    ELSE stringify(message.value)]]
    ELSE [w EXCEPT !.tx = [called |-> TRUE, sent |-> FALSE, sock |-> 0, data |-> ""]]

Fits(w) == Len(w.socks) <= MaxSockets

\* First commit: both effect bodies run with the first render's closure
\* (useTabManager starts at false).
mount ==
  /\ ws.phase = "new"
  /\ \E t1 \in BOOLEAN : \E t2 \in BOOLEAN :
       LET w0 == [ws EXCEPT !.phase = "mounted"]
           env == RenderEnv(w0)
       IN  ws' = Quiet(effectTabStatus(effectMount(w0, env, t1), env, t2))
  /\ Fits(ws')
  /\ UNCHANGED <<tabVars, secure, bounded>>

\* useTabManager returns a new value: the cleanup of the first effect, then
\* both bodies with the new render's closure.
setActiveTab(v) ==
  /\ ws.phase = "mounted"
  /\ v # ws.isActiveTab
  /\ \E t1 \in BOOLEAN : \E t2 \in BOOLEAN :
       LET w0 == [ws EXCEPT !.isActiveTab = v]
           env == RenderEnv(w0)
       IN  ws' = Quiet(effectTabStatus(effectMount(cleanup_ws(w0), env, t1), env, t2))
  /\ Fits(ws')
  /\ UNCHANGED <<tabVars, secure, bounded>>

\* The enabled prop changes: only the second effect depends on it.
setEnabled(v) ==
  /\ ws.phase = "mounted"
  /\ v # ws.enabled
  /\ \E t \in BOOLEAN :
       LET w0 == [ws EXCEPT !.enabled = v]
       IN  ws' = Quiet(effectTabStatus(w0, RenderEnv(w0), t))
  /\ Fits(ws')
  /\ UNCHANGED <<tabVars, secure, bounded>>

\* The userId prop changes (login, logout): no effect depends on it.
setUserId(v) ==
  /\ ws.phase = "mounted"
  /\ v # ws.userId
  /\ ws' = Quiet([ws EXCEPT !.userId = v])
  /\ UNCHANGED <<tabVars, secure, bounded>>

\* The component unmounts: the cleanup of the first effect.
unmount ==
  /\ ws.phase = "mounted"
  /\ ws' = Quiet(cleanup_ws([ws EXCEPT !.phase = "unmounted"]))
  /\ UNCHANGED <<tabVars, secure, bounded>>

\* The connection of socket i is established.
wsOpen(i) ==
  /\ i \in 1..Len(ws.socks)
  /\ ws.socks[i].state = "CONNECTING"
  /\ ws' = Quiet(onopen([ws EXCEPT !.socks[i].state = "OPEN"], i))
  /\ UNCHANGED <<tabVars, secure, bounded>>

\* Socket i is closed, with an error event first when the connection failed
\* (always so for a socket that never opened).
wsClose(i, failed) ==
  /\ i \in 1..Len(ws.socks)
  /\ ws.socks[i].state \in {"CONNECTING", "OPEN", "CLOSING", "FAILING"}
  /\ ws.socks[i].state \in {"CONNECTING", "FAILING"} => failed
  /\ LET w0 == [ws EXCEPT !.socks[i].state = "CLOSED", !.socks[i].regs = 0]
     IN  ws' = Quiet(onclose(IF failed THEN onerror(w0) ELSE w0, i))
  /\ UNCHANGED <<tabVars, secure, bounded>>

\* A frame arrives on the open socket i.
wsMessage(i, f) ==
  /\ i \in 1..Len(ws.socks)
  /\ ws.socks[i].state = "OPEN"
  /\ ws' = onmessage_ws(Quiet(ws), f)
  /\ UNCHANGED <<tabVars, secure, bounded>>

\* A child calls sendMessage from the context of the current render.
sendMessage(message) ==
  /\ ws.phase = "mounted"
  /\ ws' = sendMessage_ws(Quiet(ws), message)
  /\ UNCHANGED <<tabVars, secure, bounded>>

\* The timer set by the onclose of socket i fires: connect of that socket's
\* closure.
reconnectTimer(i) ==
  /\ i \in ws.timers
  /\ \E t \in BOOLEAN :
       LET w0 == [ws EXCEPT !.timers = @ \ {i}, !.socks[i] = DeadSocket]
           w1 == connect(w0, ws.socks[i].env, t)
       IN  ws' = Quiet([w1 EXCEPT !.retries =
                          IF Len(w1.socks) > Len(w0.socks) THEN @ + 1 ELSE @])
  /\ Fits(ws')
  /\ UNCHANGED <<tabVars, secure, bounded>>

WSNext ==
  \/ mount
  \/ \E v \in BOOLEAN : setActiveTab(v)
  \/ \E v \in BOOLEAN : setEnabled(v)
  \/ \E v \in BOOLEAN : setUserId(v)
  \/ unmount
  \/ \E i \in 1..MaxSockets : wsOpen(i)
  \/ \E i \in 1..MaxSockets : \E failed \in BOOLEAN : wsClose(i, failed)
  \/ \E i \in 1..MaxSockets : reconnectTimer(i)
  \/ \E message \in Payloads : sendMessage(message)

\* The frames of the server on the connections of a mounted wrapper, in the
\* window before a reconnect timer fires.  No frame handler reads or writes
\* a ref of the connection logic, so WSNext leaves the frames to FrameNext.
FrameNext ==
  \/ mount
  \/ \E v \in BOOLEAN : setActiveTab(v)
  \/ unmount
  \/ \E i \in 1..MaxSockets : wsOpen(i)
  \/ \E i \in 1..MaxSockets : \E failed \in BOOLEAN : wsClose(i, failed)
  \/ \E i \in 1..MaxSockets : \E f \in Frames : wsMessage(i, f)

\* ------------------- secureSessionStorage (secureStorage.ts, crypto-utils.js)

\* The values getSessionKey() can take: it hashes userAgent, language,
\* timezone offset and screen geometry anew on every call.
Fingerprints == 1..NumFingerprints

\* The keys the wrapper uses.
StorageKeys == {"accountBlocked", "maintenance"}

\* The strings callers store: the empty string and the JSON texts the
\* wrapper writes.
Values == {"", "{\"isBlocked\":true}", "{\"status\":false}"}

\* JSON.stringify of a string: the string in quotes, its quotes escaped.
JSONstringify(v) ==
  CASE v = "" -> "\"\""
    [] v = "{\"isBlocked\":true}" -> "\"{\\\"isBlocked\\\":true}\""
    [] v = "{\"status\":false}" -> "\"{\\\"status\\\":false}\""
    [] OTHER -> "null"

\* What a call returns: a value, null, or an exception.
Null == [threw |-> FALSE, type |-> "null", value |-> ""]
Threw == [threw |-> TRUE, type |-> "undefined", value |-> ""]
StringOf(v) == [threw |-> FALSE, type |-> "string", value |-> v]

\* JSON.parse: the inverse of JSONstringify on its range, a boolean for the
\* text true, a SyntaxError for text that is not JSON.
JSONparse(t) ==
  IF \E v \in Values : JSONstringify(v) = t
    THEN StringOf(CHOOSE v \in Values : JSONstringify(v) = t)
    ELSE IF t = "true" THEN [threw |-> FALSE, type |-> "boolean", value |-> "true"]
    ELSE Threw

\* What sessionStorage holds under a key: nothing, a string that is no
\* ciphertext (raw), or the OpenSSL-format output of CryptoJS.AES.encrypt.
Absent == [kind |-> "absent", key |-> 0, text |-> ""]
Raw(t) == [kind |-> "raw", key |-> 0, text |-> t]

\* CryptoJS.AES.encrypt(text, key).toString(): never the empty string.
AESencrypt(text, key) == [kind |-> "cipher", key |-> key, text |-> text]

\* A decryption that yields nothing.
NoDecrypt(e, key) == Threw

\* CryptoJS.AES.decrypt(e, key).toString(CryptoJS.enc.Utf8): the plaintext
\* under the key of the encryption; under another key, or for a string that
\* is no ciphertext, bytes that are empty or not UTF-8 (both end in the
\* catch of decryptData).
AESdecrypt(e, key) ==
  IF e.kind = "cipher" /\ e.key = key THEN StringOf(e.text) ELSE Threw

\* !encrypted in JavaScript: null or the empty string.
Falsy(e) == e.kind = "absent" \/ (e.kind = "raw" /\ e.text = "")

\* encryptData(data) for a string (never null or undefined).
encryptData(data, key) == AESencrypt(JSONstringify(data), key)

\* decryptData(encryptedData).
decryptData(encryptedData, key) ==
  IF Falsy(encryptedData) THEN Null
  ELSE LET decrypted == AESdecrypt(encryptedData, key) IN
       IF decrypted.threw \/ decrypted.value = "" THEN Threw
       ELSE JSONparse(decrypted.value)

\* The plaintexts a stored ciphertext can hold: what setItem encrypts, and
\* what other users of encryptData or a damaged write leave behind.
Plaintexts == {JSONstringify(v) : v \in Values} \cup {"true", "{oops", ""}

Entries ==
  {Absent, Raw(""), Raw("garbage")}
    \cup {AESencrypt(t, f) : t \in Plaintexts, f \in Fingerprints}

\* last[k]: the value and session key of the last setItem(k, ...) if nothing
\* has written or removed k since.  ret: the last call and its outcome.
NoWrite == [set |-> FALSE, value |-> "", key |-> 0]
Call(op, k, result, caught) ==
  [op |-> op, key |-> k, result |-> result, caught |-> caught]
NoCall_ss == Call("none", "", Null, FALSE)

\* An empty sessionStorage.
NewStorage ==
  [fingerprint |-> 1,
   items |-> [k \in StorageKeys |-> Absent],
   last |-> [k \in StorageKeys |-> NoWrite],
   ret |-> NoCall_ss]

\* An entry that stays where it is.
keepItem(items, k) == items

\* sessionStorage.removeItem(key).
removeItem_ss(items, k) == [items EXCEPT ![k] = Absent]

\* SecureSessionStorage.setItem(key, value).
setItem_ss(st, k, value) ==
  LET encrypted == encryptData(value, st.fingerprint) IN
  IF ~Falsy(encrypted)
    THEN [st EXCEPT !.items[k] = encrypted,
                    !.last[k] = [set |-> TRUE, value |-> value, key |-> st.fingerprint],
                    !.ret = Call("setItem", k, Null, FALSE)]
    ELSE [st EXCEPT !.ret = Call("setItem", k, Null, FALSE)]

\* SecureSessionStorage.getItem(key).
getItem_ss(st, k) ==
  LET encrypted == st.items[k] IN
  IF Falsy(encrypted) THEN [st EXCEPT !.ret = Call("getItem", k, Null, FALSE)]
  ELSE LET decrypted == decryptData(encrypted, st.fingerprint) IN
       IF decrypted.threw
         THEN [st EXCEPT !.items = removeItem_ss(st.items, k),
                         !.last[k] = NoWrite,
                         !.ret = Call("getItem", k, Null, TRUE)]
         ELSE [st EXCEPT !.ret = Call("getItem", k, decrypted, FALSE)]

setItem(k, value) ==
  /\ secure' = setItem_ss(secure, k, value)
  /\ UNCHANGED <<tabVars, ws, bounded>>

getItem(k) ==
  /\ secure' = getItem_ss(secure, k)
  /\ UNCHANGED <<tabVars, ws, bounded>>

\* SecureSessionStorage.removeItem(key).
removeItem(k) ==
  /\ secure' = [secure EXCEPT !.items = removeItem_ss(secure.items, k),
                              !.last[k] = NoWrite,
                              !.ret = Call("removeItem", k, Null, FALSE)]
  /\ UNCHANGED <<tabVars, ws, bounded>>

\* SecureSessionStorage.clear().
clear ==
  /\ secure' = [secure EXCEPT !.items = [k \in StorageKeys |-> Absent],
                              !.last = [k \in StorageKeys |-> NoWrite],
                              !.ret = Call("clear", "", Null, FALSE)]
  /\ UNCHANGED <<tabVars, ws, bounded>>

\* The browser properties behind getSessionKey() change (another screen,
\* another timezone offset, another language).
changeFingerprint(f) ==
  /\ f # secure.fingerprint
  /\ secure' = [secure EXCEPT !.fingerprint = f, !.ret = NoCall_ss]
  /\ UNCHANGED <<tabVars, ws, bounded>>

StoreNext ==
  \/ \E k \in StorageKeys : \E value \in Values : setItem(k, value)
  \/ \E k \in StorageKeys : getItem(k)
  \/ \E k \in StorageKeys : removeItem(k)
  \/ clear
  \/ \E f \in Fingerprints : changeFingerprint(f)

\* ------------------- the bounded-retry WebSocketWrapper (src/unnamed/part_000)

\* reconnectAttempts = 5 in the destructured props.
DefaultReconnectAttempts == 5

\* The reconnectAttempts prop as the parent passes it: left out, or a number.
Unset == [set |-> FALSE, value |-> 0]
Ceiling(n) == [set |-> TRUE, value |-> n]
CeilingProps == {Unset} \cup {Ceiling(n) : n \in 0..MaxCeiling}

\* Destructuring with a default value.
reconnectAttemptsOf(prop) ==
  IF prop.set THEN prop.value ELSE DefaultReconnectAttempts

\* The component before its first commit.  The only effect has no
\* dependencies, so every handler keeps the props of the first render.
\* timers: the pending reconnect timers, named by the socket whose onclose
\* set them; gaveUp: the last step logged 'Max reconnection attempts
\* reached. Giving up.'
NewBounded(en, uid, prop) ==
  [phase |-> "new", enabled |-> en, userId |-> uid, prop |-> prop,
   reconnectAttempts |-> reconnectAttemptsOf(prop),
   socketRef |-> 0, socks |-> <<>>, timers |-> {}, reconnectTimeoutRef |-> 0,
   reconnectCount |-> 0, isConnecting |-> FALSE, hasRegistered |-> FALSE,
   isConnected |-> FALSE, connectionStatus |-> "disconnected", gaveUp |-> FALSE]

setIsConnected_b(w, v) ==
  IF w.phase = "mounted" THEN [w EXCEPT !.isConnected = v] ELSE w

setConnectionStatus(w, v) ==
  IF w.phase = "mounted" THEN [w EXCEPT !.connectionStatus = v] ELSE w

sendRegistration_b(w, userIdToRegister) ==
  IF readyStateOpen(w) /\ userIdToRegister /\ ~w.hasRegistered
    THEN [w EXCEPT !.socks[w.socketRef].regs = @ + 1, !.hasRegistered = TRUE]
    ELSE w

\* connect; throws: new WebSocket(url) raises.
connect_b(w, throws) ==
  IF ~w.enabled \/ w.isConnecting \/ readyStateOpen(w) THEN w
  ELSE LET a == IF w.socketRef # 0
                  THEN [close(w, w.socketRef) EXCEPT !.socketRef = 0] ELSE w
           b == setConnectionStatus([a EXCEPT !.isConnecting = TRUE], "connecting")
       IN  IF throws
             THEN [setConnectionStatus(b, "error") EXCEPT !.isConnecting = FALSE]
             ELSE [b EXCEPT !.socks = Append(@, [state |-> "CONNECTING", regs |-> 0]),
                            !.socketRef = Len(b.socks) + 1]

\* ws.onopen.
onopen_b(w) ==
  LET a == setConnectionStatus(setIsConnected_b(w, TRUE), "connected")
      b == [a EXCEPT !.reconnectCount = 0, !.isConnecting = FALSE]
  IN  IF w.userId THEN sendRegistration_b(b, w.userId) ELSE b

\* ws.onerror.
onerror_b(w) == [setConnectionStatus(w, "error") EXCEPT !.isConnecting = FALSE]

\* An onclose that sets a reconnect timer whatever the counter says.
alwaysRetry(w, i) ==
  IF w.enabled
    THEN [w EXCEPT !.timers = @ \cup {i}, !.reconnectTimeoutRef = i]
    ELSE w

\* The reconnection branch of ws.onclose of socket i.
scheduleReconnect(w, i) ==
  IF w.enabled /\ w.reconnectCount < w.reconnectAttempts
    THEN [w EXCEPT !.timers = @ \cup {i}, !.reconnectTimeoutRef = i]
  ELSE IF w.reconnectCount >= w.reconnectAttempts
    THEN [w EXCEPT !.gaveUp = TRUE]
  ELSE w

\* ws.onclose of socket i.
onclose_b(w, i) ==
  LET a == setConnectionStatus(setIsConnected_b(w, FALSE), "disconnected")
  IN  scheduleReconnect([a EXCEPT !.isConnecting = FALSE, !.hasRegistered = FALSE], i)

\* The cleanup of the effect.
cleanup_b(w) ==
  LET a == IF w.reconnectTimeoutRef # 0
             THEN [w EXCEPT !.timers = @ \ {w.reconnectTimeoutRef},
                            !.reconnectTimeoutRef = 0]
             ELSE w
      b == IF a.socketRef # 0
             THEN [close(a, a.socketRef) EXCEPT !.socketRef = 0] ELSE a
  IN  [b EXCEPT !.isConnecting = FALSE, !.reconnectCount = 0]

Calm(w) == [w EXCEPT !.gaveUp = FALSE]

FitsBounded(w) == Len(w.socks) <= MaxBoundedSockets

\* First commit: the body of the effect.
mount_b ==
  /\ bounded.phase = "new"
  /\ \E t \in BOOLEAN :
       LET w0 == [bounded EXCEPT !.phase = "mounted"]
       IN  bounded' = Calm(IF w0.enabled THEN connect_b(w0, t) ELSE w0)
  /\ UNCHANGED <<tabVars, ws, secure>>

\* The component unmounts.
unmount_b ==
  /\ bounded.phase = "mounted"
  /\ bounded' = Calm(cleanup_b([bounded EXCEPT !.phase = "unmounted"]))
  /\ UNCHANGED <<tabVars, ws, secure>>

\* The connection of socket i is established.
wsOpen_b(i) ==
  /\ i \in 1..Len(bounded.socks)
  /\ bounded.socks[i].state = "CONNECTING"
  /\ bounded' = Calm(onopen_b([bounded EXCEPT !.socks[i].state = "OPEN"]))
  /\ UNCHANGED <<tabVars, ws, secure>>

\* Socket i is closed, with an error event first when the connection failed
\* (always so for a socket that never opened).
wsClose_b(i, failed) ==
  /\ i \in 1..Len(bounded.socks)
  /\ bounded.socks[i].state \in {"CONNECTING", "OPEN", "CLOSING", "FAILING"}
  /\ bounded.socks[i].state \in {"CONNECTING", "FAILING"} => failed
  /\ LET w0 == Calm([bounded EXCEPT !.socks[i].state = "CLOSED",
                                    !.socks[i].regs = 0])
     IN  bounded' = onclose_b(IF failed THEN onerror_b(w0) ELSE w0, i)
  /\ UNCHANGED <<tabVars, ws, secure>>

\* The reconnect timer set by the onclose of socket i fires.
reconnectTimer_b(i) ==
  /\ i \in bounded.timers
  /\ \E t \in BOOLEAN :
       LET w0 == [bounded EXCEPT !.timers = @ \ {i}, !.reconnectCount = @ + 1]
       IN  bounded' = Calm(connect_b(w0, t))
  /\ FitsBounded(bounded')
  /\ UNCHANGED <<tabVars, ws, secure>>

BoundedNext ==
  \/ mount_b
  \/ unmount_b
  \/ \E i \in 1..MaxBoundedSockets : wsOpen_b(i)
  \/ \E i \in 1..MaxBoundedSockets : \E failed \in BOOLEAN : wsClose_b(i, failed)
  \/ \E i \in 1..MaxBoundedSockets : reconnectTimer_b(i)

\* ------------------------------------------------------- specifications

\* The wrapper of a tab before React mounts it.
WsIdle ==
  /\ ws = NewWrapper(TRUE, FALSE)
  /\ secure = NewStorage
  /\ bounded = NewBounded(TRUE, FALSE, Unset)

TabSpecInit == TabInit(TabsOpened) /\ WsIdle

TabSpec == TabSpecInit /\ [][TabNext]_vars

\* TabSpec with the event loop of every tab at work: pending timers fire,
\* messages and storage events in flight are handled.
TabFairSpec ==
  /\ TabSpec
  /\ WF_vars(\E s \in Peers : \E r \in Peers : onmessage(s, r))
  /\ WF_vars(\E p \in Peers : PingTimeout(p))
  /\ WF_vars(\E p \in Peers : ConfirmTimeout(p))
  /\ WF_vars(\E p \in Peers : HeartbeatTick(p))
  /\ WF_vars(\E p \in Peers : handleStorageEvent(p))

\* The election on the broadcast transport on a machine whose clock can be
\* set, forward and back, between any two steps.
SkewNext ==
  \/ ClockSet
  \/ \E p \in Peers : initialize(p)
  \/ \E s \in Peers : \E r \in Peers : onmessage(s, r)
  \/ \E p \in Peers : PingTimeout(p)

SkewInit == TabSpecInit /\ hasBroadcastChannel = TRUE

SkewSpec == SkewInit /\ [][SkewNext]_vars

\* The storage transport with a shared record that other code can
\* overwrite: tabs start, confirm, beat, handle storage events and are
\* destroyed.
GarbageNext ==
  \/ Tick
  \/ foreignWrite
  \/ \E p \in Peers : initialize(p)
  \/ \E p \in Peers : ConfirmTimeout(p)
  \/ \E p \in Peers : HeartbeatTick(p)
  \/ \E p \in Peers : handleStorageEvent(p)
  \/ \E p \in Peers : destroy(p)

GarbageInit == TabSpecInit /\ hasBroadcastChannel = FALSE

GarbageSpec == GarbageInit /\ [][GarbageNext]_vars

\* The election window on the broadcast transport: every tab is opened, no
\* tab is closed or destroyed, the 2 s timers have not fired yet.
ElectNext ==
  \/ Tick
  \/ \E p \in Peers : initialize(p)
  \/ \E s \in Peers : \E r \in Peers : onmessage(s, r)
  \/ \E p \in Peers : PingTimeout(p)

ElectInit == TabInit(NumPeers) /\ hasBroadcastChannel = TRUE /\ WsIdle

ElectSpec == ElectInit /\ [][ElectNext]_vars

\* One WebSocketWrapper with any props, no tab manager running beside it.
WSInit ==
  /\ TabInit(0)
  /\ hasBroadcastChannel = TRUE
  /\ \E en \in BOOLEAN : \E uid \in BOOLEAN : ws = NewWrapper(en, uid)
  /\ secure = NewStorage
  /\ bounded = NewBounded(TRUE, FALSE, Unset)

WSSpec == WSInit /\ [][WSNext]_vars

FrameSpec == WSInit /\ [][FrameNext]_vars

\* secureSessionStorage alone, over any content of sessionStorage.
StoreInit ==
  /\ TabInit(0)
  /\ hasBroadcastChannel = TRUE
  /\ ws = NewWrapper(TRUE, FALSE)
  /\ bounded = NewBounded(TRUE, FALSE, Unset)
  /\ \E f \in Fingerprints : \E items \in [StorageKeys -> Entries] :
       secure = [NewStorage EXCEPT !.fingerprint = f, !.items = items]

StoreSpec == StoreInit /\ [][StoreNext]_vars

\* The bounded-retry wrapper alone, with any props.
BoundedInit ==
  /\ TabInit(0)
  /\ hasBroadcastChannel = TRUE
  /\ ws = NewWrapper(TRUE, FALSE)
  /\ secure = NewStorage
  /\ \E en \in BOOLEAN : \E uid \in BOOLEAN : \E prop \in CeilingProps :
       bounded = NewBounded(en, uid, prop)

BoundedSpec == BoundedInit /\ [][BoundedNext]_vars

\* ------------------------------------------------------------ the claims

\* Tabs whose page runs and whose TabManager was not destroyed.
LivePeers == {p \in Peers : tabPhase[p] = "running"}

ActivePeers == {p \in LivePeers : isActive[p]}

\* No tab has departed, every election timer has fired and nothing is in
\* flight: only heartbeats and close timers can still happen.
ElectionSettled ==
  /\ LivePeers # {}
  /\ \A p \in Peers : tabPhase[p] \in {"unborn", "running"} \/ tabTs[p] = 0
  /\ \A p \in Peers : ~pingTimer[p] /\ ~confirmTimer[p]
  /\ \A s \in Peers : \A r \in Peers : chan[s][r] = <<>>

\* The tabs opened so far carry pairwise different creation stamps.
DistinctStamps ==
  \A p \in LivePeers : \A q \in LivePeers : p # q => tabTs[p] # tabTs[q]

\* C1: once the election of the tabs opened so far (with different stamps)
\* has settled, exactly one of them is the leader and every other one is not.
C1_SingleLeaderConvergence ==
  (ElectionSettled /\ DistinctStamps) => Cardinality(ActivePeers) = 1

\* C2: of two tabs with different creation stamps, once both elections have
\* settled the older one is the leader and the younger one is not.
C2_OldestWins ==
  \A p \in LivePeers : \A q \in LivePeers :
     (ElectionSettled /\ LivePeers = {p, q} /\ tabTs[p] < tabTs[q])
        => (isActive[p] /\ ~isActive[q])

\* Some tab that became leader was destroyed or closed.
LeaderTornDown ==
  \E l \in Peers : isActive[l] /\ tabPhase[l] \in {"destroyed", "closed"}

\* Nothing is pending for the tabs that remain: no election or close timer,
\* no message or storage event in flight, no fresh record in localStorage.
RemainingSettled ==
  /\ LivePeers # {}
  /\ \A p \in LivePeers : ~pingTimer[p] /\ ~confirmTimer[p] /\ ~closePending[p]
  /\ \A p \in Peers : tabPhase[p] # "unborn"
  /\ \A s \in Peers : \A r \in Peers : chan[s][r] = <<>>
  /\ \A p \in Peers : evq[p] = <<>>
  /\ ~hasBroadcastChannel => (record = NoRecord \/ ~Fresh(record))

\* C3, as stated: once the leader is torn down and nothing is pending any
\* more, one of the remaining tabs is the leader.
C3_ReelectionAfterDeparture ==
  (LeaderTornDown /\ RemainingSettled) => ActivePeers # {}

\* C3, amended: after the leader is torn down a tab becomes leader only in
\* its constructor or when its own one-shot election timer (PING_TIMEOUT or
\* the 300 ms confirmation) fires; a tab whose check has run stays a follower.
C3_NoReelection ==
  [][\A p \in Peers :
       (LeaderTornDown /\ ~isActive[p] /\ isActive'[p]) =>
          \/ tabPhase[p] = "unborn"
          \/ pingTimer[p] /\ ~pingTimer'[p]
          \/ confirmTimer[p] /\ ~confirmTimer'[p]]_vars

\* The leader was torn down and a follower whose election check has run
\* remains, with nothing in flight.
C3_Witness ==
  /\ LeaderTornDown
  /\ RemainingSettled
  /\ \E f \in LivePeers : ~isActive[f] /\ dupRuns[f] > 0

C5_ExactlyOnceRegistration ==
  (ws.phase = "mounted" /\ readyStateOpen(ws) /\ ws.userId)
     => ws.socks[ws.socketRef].regs = 1

\* C6: without an open in between, at most reconnectAttempts connections are
\* started by the reconnect timer.
C6_RetryCeiling == ws.retries <= reconnectAttempts

C10_StopIsFinal ==
  ws.phase = "unmounted" =>
     /\ ws.timers = {}
     /\ \A i \in 1..Len(ws.socks) : ws.socks[i].state \notin {"CONNECTING", "OPEN"}

\* C11: once destroy() has run in a tab, that tab's isActive and heartbeat
\* interval stay as destroy() left them, it posts no message and it does not
\* write the shared record.
C11_DestroyReleasesTimers ==
  [][\A p \in Peers :
       tabPhase[p] = "destroyed" =>
          /\ isActive'[p] = isActive[p]
          /\ heartbeatOn'[p] = heartbeatOn[p]
          /\ \A r \in Peers : Len(chan'[p][r]) <= Len(chan[p][r])
          /\ record' # record => record'.tabId # p]_vars

\* C12: a tab that was not opened yet is no leader; isActive turns true only
\* in the PING_TIMEOUT callback (broadcast transport), in the constructor or
\* in the 300 ms confirmation (storage transport); a step that takes a
\* message or a storage event off a queue leaves every isActive as it was.
C12_LeadershipOnlyByElection ==
  [][/\ \A p \in Peers : tabPhase[p] = "unborn" => ~isActive[p]
     /\ \A p \in Peers :
          (~isActive[p] /\ isActive'[p]) =>
             \/ hasBroadcastChannel /\ pingTimer[p] /\ ~pingTimer'[p]
             \/ ~hasBroadcastChannel /\ tabPhase[p] = "unborn"
             \/ ~hasBroadcastChannel /\ confirmTimer[p] /\ ~confirmTimer'[p]
     /\ (\E s \in Peers : \E r \in Peers : Len(chan'[s][r]) < Len(chan[s][r]))
          => isActive' = isActive
     /\ (\E p \in Peers : Len(evq'[p]) < Len(evq[p])) => isActive' = isActive]_vars

\* A tab has received a pong and stayed a follower while another tab became
\* the leader in its PING_TIMEOUT callback.
C12_Witness ==
  \E p \in LivePeers : \E q \in LivePeers :
     receivedPong[p] /\ ~isActive[p] /\ isActive[q] /\ ~pingTimer[q]

\* The sockets that are connecting or open.
LiveSockets == {i \in 1..Len(ws.socks) : ws.socks[i].state \in {"CONNECTING", "OPEN"}}

\* A step in which only connect() can have touched the sockets: a socket is
\* created and no effect cleanup ran (same leadership input, same phase).
ConnectCreates ==
  /\ Len(ws'.socks) > Len(ws.socks)
  /\ ws'.isActiveTab = ws.isActiveTab
  /\ ws'.phase = ws.phase

C14_SendOnlyWhenOpen ==
  [][/\ ws'.tx.sent =>
          /\ ws'.tx.called
          /\ readyStateOpen(ws) /\ ws'.tx.sock = ws.socketRef
          /\ ws'.tx.data \in {"hello", "{\"a\":1}"}
     /\ ws'.tx.called => [ws' EXCEPT !.tx = NoCall] = Quiet(ws)]_vars

\* A call was dropped while a socket was still connecting.
C14_Witness ==
  /\ ws.tx.called /\ ~ws.tx.sent
  /\ ws.socketRef # 0 /\ ws.socks[ws.socketRef].state = "CONNECTING"

\* C15: a getItem(k) that follows a setItem(k, v) with no write or removal
\* of k in between, under the session key of the setItem, returns the
\* string v.
C15_RoundTrip ==
  [][\A k \in StorageKeys :
       (/\ secure'.ret.op = "getItem" /\ secure'.ret.key = k
        /\ secure.last[k].set
        /\ secure.last[k].key = secure.fingerprint)
         => secure'.ret.result = StringOf(secure.last[k].value)]_vars

\* The JSON text of {isBlocked: true} was written and read back.
C15_Witness ==
  /\ secure.ret.op = "getItem"
  /\ secure.ret.result = StringOf("{\"isBlocked\":true}")
  /\ secure.last[secure.ret.key].set
  /\ secure.last[secure.ret.key].key = secure.fingerprint

\* A stored value on which decryptData throws.
Undecryptable(e, key) == ~Falsy(e) /\ decryptData(e, key).threw

\* C16: getItem(k) on a stored value that cannot be decrypted or decoded
\* returns null, throws nothing, removes k and leaves the other keys as
\* they were.
C16_CorruptedEntryPurged ==
  [][\A k \in StorageKeys :
       (/\ secure'.ret.op = "getItem" /\ secure'.ret.key = k
        /\ Undecryptable(secure.items[k], secure.fingerprint))
         => /\ secure'.ret.result = Null
            /\ secure'.items[k] = Absent
            /\ \A j \in StorageKeys \ {k} : secure'.items[j] = secure.items[j]]_vars

\* A getItem ran into the catch, purged its key and left another entry.
C16_Witness ==
  /\ secure.ret.op = "getItem" /\ secure.ret.caught
  /\ secure.items[secure.ret.key] = Absent
  /\ \E j \in StorageKeys : j # secure.ret.key /\ secure.items[j] # Absent

\* The PING_TIMEOUT callback of tab p runs in this step (a tab that is
\* closed takes its pending timers with it).
PingTimeoutRuns(p) == pingTimer[p] /\ ~pingTimer'[p] /\ tabPhase'[p] # "closed"

C18_EvictionIsTerminal ==
  [][\A p \in Peers : (dupRuns[p] > 0 /\ ~isActive[p]) => ~isActive'[p]]_vars

\* Two running tabs on the broadcast transport with the same creation stamp
\* are both leaders.
TieLeaders ==
  /\ hasBroadcastChannel
  /\ \E p \in LivePeers : \E q \in LivePeers :
       p # q /\ tabTs[p] = tabTs[q] /\ isActive[p] /\ isActive[q]

\* Tab r, not a leader, handles the ping or the claim of a tab s that has
\* its creation stamp.
TieMessageHandled(s, r) ==
  /\ s # r /\ tabTs[s] = tabTs[r] /\ ~isActive[r]
  /\ chan[s][r] # <<>> /\ Head(chan[s][r]) \in {"ping", "claim"}
  /\ chan'[s][r] = Tail(chan[s][r])
  /\ tabPhase' = tabPhase

\* C19: between two tabs with the same creation stamp neither answers the
\* other's ping nor yields to the other's claim, and whenever both are
\* leaders the heartbeats that follow lead to a state in which they are not
\* both leaders.
C19_TieReResolved ==
  /\ [][\A s \in Peers : \A r \in Peers :
          TieMessageHandled(s, r) =>
             chan'[r] = chan[r] /\ dupRuns'[r] = dupRuns[r]]_vars
  /\ TieLeaders ~> ~TieLeaders

\* The storage listener of tab p, a leader, handles an event that carries
\* the fresh record of another tab.
FreshForeignRecordHandled(p) ==
  /\ listening[p] /\ isActive[p]
  /\ evq[p] # <<>> /\ evq'[p] = Tail(evq[p])
  /\ tabPhase' = tabPhase
  /\ Head(evq[p]) # NoRecord
  /\ Head(evq[p]).tabId # p
  /\ now - Head(evq[p]).timestamp < TAB_TIMEOUT

\* C20: on the storage transport a leader that handles a storage event with
\* the fresh record of another tab stops being the leader and runs
\* duplicate-tab handling in that step.
C20_StorageConflictYields ==
  [][\A p \in Peers :
       FreshForeignRecordHandled(p) =>
          /\ ~isActive'[p]
          /\ dupRuns'[p] > dupRuns[p] \/ dupRuns'[p] = MaxDup]_vars

\* The shared record is present and younger than TAB_TIMEOUT.
RecordIsFresh == record # NoRecord /\ now - record.timestamp < TAB_TIMEOUT

\* The constructor of tab p runs on the storage transport in this step.
StorageStart(p) ==
  ~hasBroadcastChannel /\ tabPhase[p] = "unborn" /\ tabPhase'[p] = "running"

\* The 300 ms confirmation of tab p runs in this step.
ConfirmRuns(p) == confirmTimer[p] /\ ~confirmTimer'[p] /\ tabPhase'[p] # "closed"

\* C21: on the storage transport a starting tab becomes the leader and
\* writes its own record when the record is absent or stale; when it is
\* fresh the tab only arms the confirmation, and the confirmation yields
\* (duplicate-tab handling, record untouched) when the record is still
\* fresh and of another tab, and otherwise makes the tab the leader and
\* writes its record.
C21_FallbackStartProtocol ==
  [][\A p \in Peers :
       /\ StorageStart(p) =>
            IF RecordIsFresh
              THEN ~isActive'[p] /\ confirmTimer'[p] /\ record' = record
              ELSE isActive'[p] /\ ~confirmTimer'[p]
                   /\ record' = [tabId |-> p, timestamp |-> now]
       /\ ConfirmRuns(p) =>
            IF RecordIsFresh /\ record.tabId # p
              THEN /\ isActive'[p] = isActive[p] /\ record' = record
                   /\ ~isActive[p] => dupRuns'[p] > dupRuns[p] \/ dupRuns'[p] = MaxDup
              ELSE isActive'[p] /\ record' = [tabId |-> p, timestamp |-> now]]_vars

\* A tab found the record of the leader fresh at its start and still fresh
\* at its confirmation, and yielded.
C21_Witness ==
  \E p \in LivePeers : \E q \in LivePeers :
     /\ useLocalStorage[p] /\ ~isActive[p] /\ ~confirmTimer[p] /\ dupRuns[p] > 0
     /\ isActive[q] /\ record.tabId = q

\* The reconnect timer of socket i runs connect() past its guards in this
\* step and new WebSocket(url) throws: no socket is created.
ThrowInTimer(i) ==
  /\ i \in ws.timers /\ i \notin ws'.timers
  /\ ws.socks[i].env.isActiveTab /\ ws.socks[i].env.enabled
  /\ ~ws.isConnecting /\ ~readyStateOpen(ws)
  /\ Len(ws'.socks) = Len(ws.socks)

\* The effects of a mount or of a gain of leadership run connect() past its
\* guards in this step and every new WebSocket(url) throws.
ThrowInEffect ==
  /\ ws'.phase = "mounted" /\ ws'.isActiveTab /\ ws'.enabled
  /\ ws.phase = "new" \/ ~ws.isActiveTab
  /\ Len(ws'.socks) = Len(ws.socks)

\* C22: when new WebSocket(url) throws inside connect(), the wrapper is
\* left without a socket, with isConnecting = false, and with a reconnect
\* timer armed in that step.
C22_ConstructionFailureRetried ==
  [][((\E i \in 1..MaxSockets : ThrowInTimer(i)) \/ ThrowInEffect) =>
        /\ ws'.socketRef = 0 /\ ~ws'.isConnecting
        /\ \E j \in ws'.timers : j \notin ws.timers]_vars

\* The reconnect timer of socket i fires in this step and its connect()
\* creates a WebSocket.
TimerConnects(i) ==
  i \in ws.timers /\ i \notin ws'.timers /\ Len(ws'.socks) > Len(ws.socks)

\* C23: a reconnect timer starts a new connection only if, when it fires,
\* the wrapper is mounted and enabled and the tab is the leader.
C23_ReconnectGatedByCurrentState ==
  [][\A i \in 1..MaxSockets :
       TimerConnects(i) =>
          ws.phase = "mounted" /\ ws.enabled /\ ws.isActiveTab]_vars

\* The step handles a frame of type t (an object with that type property).
FrameHandled(t) == ws'.rx.json = "object" /\ ws'.rx.type = t

\* Socket i opens, or its close event is handled, in this step.
SocketOpens(i) ==
  i \in 1..Len(ws.socks) /\ ws.socks[i].state = "CONNECTING"
    /\ ws'.socks[i].state = "OPEN"
SocketCloses(i) ==
  i \in 1..Len(ws.socks) /\ ws.socks[i].state # "CLOSED"
    /\ i \in ws'.timers \ ws.timers

\* While the wrapper is not unmounted the two screens show what is
\* persisted.
ScreensShowPersisted ==
  ws.phase # "unmounted" =>
     /\ ws.showMaintenanceScreen = ws.maintenance
     /\ ws.showBlockedScreen = ws.accountBlocked

\* The blocked flag changes only with a BLOCK_STATUS frame, to
\* (message = 'Blocked').
BlockedFollowsFrames ==
  ws'.accountBlocked =
     IF FrameHandled("BLOCK_STATUS") THEN ws'.rx.flag ELSE ws.accountBlocked

\* The maintenance flag changes only with a MAINTENANCE_STATUS frame, to
\* its message.
MaintenanceFollowsFrames ==
  ws'.maintenance =
     IF FrameHandled("MAINTENANCE_STATUS") THEN ws'.rx.flag ELSE ws.maintenance

\* The maintenance flag is set by a MAINTENANCE_STATUS frame to its message,
\* by an open event to false, by an error event to true (one always comes
\* before the close event of a socket that never opened), and by nothing
\* else.
MaintenanceFollowsFramesAndSocket ==
  /\ FrameHandled("MAINTENANCE_STATUS") => ws'.maintenance = ws'.rx.flag
  /\ \A i \in 1..MaxSockets :
       /\ SocketOpens(i) => ~ws'.maintenance
       /\ SocketCloses(i) =>
            /\ ws'.maintenance \/ ws'.maintenance = ws.maintenance
            /\ (ws.socks[i].state \in {"CONNECTING", "FAILING"}
                  => ws'.maintenance)
  /\ (/\ ~FrameHandled("MAINTENANCE_STATUS")
      /\ \A j \in 1..MaxSockets : ~SocketOpens(j) /\ ~SocketCloses(j))
       => ws'.maintenance = ws.maintenance

\* C24 as stated: the persisted flags and the screens equal the value of
\* the most recent MAINTENANCE_STATUS and BLOCK_STATUS frame; no other
\* event changes them.
C24_FlagsFollowServerOnly ==
  /\ []ScreensShowPersisted
  /\ [][BlockedFollowsFrames /\ MaintenanceFollowsFrames]_vars

\* C24, amended: the screens show the persisted flags; the blocked flag
\* follows the BLOCK_STATUS frames alone; the maintenance flag follows the
\* MAINTENANCE_STATUS frames and is also lowered by every open event and
\* raised by every error event of a socket.
C24_FlagsFollowServerAndSocket ==
  /\ []ScreensShowPersisted
  /\ [][BlockedFollowsFrames /\ MaintenanceFollowsFramesAndSocket]_vars

\* The error event of a closed socket has raised the maintenance flag and
\* the screen; the last step handled no frame.
C24_Witness ==
  /\ ws.phase = "mounted" /\ ws.maintenance /\ ws.showMaintenanceScreen
  /\ ws.rx = NoFrame
  /\ \E i \in 1..Len(ws.socks) : ws.socks[i].state = "CLOSED"

\* What a frame step leaves alone when it neither logs out nor closes: no
\* alert or logout call, every socket and the current socket as before.
NoLogoutNoClose ==
  /\ ws'.out = <<>>
  /\ ws'.socks = ws.socks /\ ws'.socketRef = ws.socketRef

FlagsOf(w) == <<w.accountBlocked, w.showBlockedScreen,
                w.maintenance, w.showMaintenanceScreen>>

\* C25: a BLOCK_STATUS or MAINTENANCE_STATUS frame sets the persisted flag
\* and (in a mounted component) the screen of its kind to its value and
\* leaves the other kind alone; a REGISTER_SUCCESS frame changes no flag;
\* none of the three calls alert or logout or closes a socket.
C25_StatusFramesNeverLogOut ==
  [][/\ FrameHandled("BLOCK_STATUS") =>
          /\ ws'.accountBlocked = ws'.rx.flag
          /\ (ws.phase = "mounted" => ws'.showBlockedScreen = ws'.rx.flag)
          /\ ws'.maintenance = ws.maintenance
          /\ ws'.showMaintenanceScreen = ws.showMaintenanceScreen
          /\ NoLogoutNoClose
     /\ FrameHandled("MAINTENANCE_STATUS") =>
          /\ ws'.maintenance = ws'.rx.flag
          /\ (ws.phase = "mounted" => ws'.showMaintenanceScreen = ws'.rx.flag)
          /\ ws'.accountBlocked = ws.accountBlocked
          /\ ws'.showBlockedScreen = ws.showBlockedScreen
          /\ NoLogoutNoClose
     /\ FrameHandled("REGISTER_SUCCESS") =>
          FlagsOf(ws') = FlagsOf(ws) /\ NoLogoutNoClose]_vars

\* A BLOCK_STATUS frame with message 'Blocked' was just handled on the open
\* current socket while the maintenance flag stands: both blocked values
\* are up and the socket is still open.
C25_Witness ==
  /\ ws.rx = Frame("object", "BLOCK_STATUS", FALSE, TRUE)
  /\ ws.accountBlocked /\ ws.showBlockedScreen /\ ws.maintenance
  /\ readyStateOpen(ws) /\ ws.out = <<>>

\* C26: a DUPLICATE_SESSION frame and an error frame call alert and then
\* logout, once each; a FORCE_LOGOUT frame calls logout once, after one
\* alert exactly when its alert field is set.
C26_LogoutFrames ==
  [][/\ (FrameHandled("DUPLICATE_SESSION") \/ FrameHandled("error"))
          => ws'.out = <<"alert", "logout">>
     /\ FrameHandled("FORCE_LOGOUT") =>
          /\ ws'.rx.alert => ws'.out = <<"alert", "logout">>
          /\ ~ws'.rx.alert => ws'.out = <<"logout">>]_vars

\* A FORCE_LOGOUT frame with its alert field set was just handled: the
\* notice came first, then the one logout.
C26_Witness ==
  /\ ws.rx = Frame("object", "FORCE_LOGOUT", TRUE, FALSE)
  /\ ws.out = <<"alert", "logout">>

\* C27: hasRegisteredRef is set only while the socket held by socketRef
\* exists and is OPEN.
C27_RegisteredOnlyWhileOpen ==
  ws.hasRegistered =>
     /\ ws.socketRef # 0
     /\ ws.socks[ws.socketRef].state = "OPEN"

\* The close event of socket i of the bounded-retry wrapper is handled in
\* this step.
CloseHandled_b(i) ==
  /\ i \in 1..Len(bounded.socks)
  /\ bounded.socks[i].state # "CLOSED"
  /\ bounded'.socks[i].state = "CLOSED"

\* The reconnectAttempts prop is 0 or was not passed.
CeilingZeroOrUnset == ~bounded.prop.set \/ bounded.prop.value = 0

\* C28: with the reconnect ceiling configured as 0 or not configured, every
\* close handled by a mounted, enabled wrapper sets a reconnect timer and
\* gives no gave-up signal, however many attempts were made before.
C28_UnlimitedWhenZeroOrUnset ==
  [][\A i \in 1..MaxBoundedSockets :
       (/\ CeilingZeroOrUnset
        /\ bounded.phase = "mounted" /\ bounded.enabled
        /\ CloseHandled_b(i))
         => i \in bounded'.timers /\ ~bounded'.gaveUp]_vars

\* Tab r handles the message m that is first in flight from tab s.
Handled(s, r, m) ==
  /\ s # r /\ channelOpen[r] /\ tabPhase' = tabPhase
  /\ chan[s][r] # <<>> /\ Head(chan[s][r]) = m
  /\ chan'[s][r] = Tail(chan[s][r])

\* Tab r posts m to every other tab that listens / posts nothing.
Posted(r, m) ==
  \A q \in Peers \ {r} :
     chan'[r][q] = IF channelOpen[q] THEN Append(chan[r][q], m) ELSE chan[r][q]
NothingPosted(r) == \A q \in Peers : chan'[r][q] = chan[r][q]

\* C29: a tab that handles a ping posts a pong when it is the leader or its
\* creation timestamp is strictly smaller than the ping's, and posts
\* nothing otherwise.
C29_PongRule ==
  [][\A s \in Peers : \A r \in Peers :
       Handled(s, r, "ping") =>
          IF isActive[r] \/ tabTs[r] < tabTs[s]
            THEN Posted(r, "pong") ELSE NothingPosted(r)]_vars

\* A pong is in flight from a tab that is not the leader to a younger tab.
C29_Witness ==
  \E r \in LivePeers : \E s \in LivePeers :
     /\ ~isActive[r] /\ tabTs[r] < tabTs[s]
     /\ chan[r][s] # <<>> /\ chan[r][s][Len(chan[r][s])] = "pong"

\* Tab r runs handleDuplicateTab past its guard: it asks the existing tab
\* for focus and arms the timer that closes it; isActive stays as it is.
Yields(r) ==
  /\ Posted(r, "focus_request")
  /\ dupRuns'[r] = Min(dupRuns[r] + 1, MaxDup)
  /\ closePending'[r]
  /\ isActive' = isActive

\* Handling a message of s changes nothing in tab r but the queue it was
\* taken from (and the history of handled claims).
NoAction(s, r) ==
  /\ \A x \in Peers : \A y \in Peers :
        <<x, y>> # <<s, r>> => chan'[x][y] = chan[x][y]
  /\ UNCHANGED <<now, tabPhase, tabTs, isActive, useLocalStorage, receivedPong,
                 pingResponses, channelOpen, heartbeatOn, pingTimer,
                 confirmTimer, closePending, listening, dupRuns, record, evq>>

\* C30: a claim of a strictly older tab makes a receiver that is not the
\* leader yield; a leader takes no action on any claim and stays leader; a
\* claim of equal or larger timestamp changes nothing in any receiver.
C30_ClaimRule ==
  [][\A s \in Peers : \A r \in Peers :
       Handled(s, r, "claim") =>
          IF ~isActive[r] /\ tabTs[s] < tabTs[r]
            THEN Yields(r) ELSE NoAction(s, r)]_vars

\* A tab that is not the leader has handled the claim of an older tab and
\* is about to close.
C30_Witness ==
  \E r \in LivePeers : \E s \in Peers :
     /\ s \in claimsReceived[r] /\ tabTs[s] < tabTs[r]
     /\ ~isActive[r] /\ dupRuns[r] > 0 /\ closePending[r]

RECURSIVE Count(_, _)
\* The number of messages m in the queue q.
Count(q, m) ==
  IF q = <<>> THEN 0
  ELSE (IF Head(q) = m THEN 1 ELSE 0) + Count(Tail(q), m)

\* Tab p posts a heartbeat in this step.
HeartbeatPosted(p) ==
  \E q \in Peers : Count(chan'[p][q], "heartbeat") > Count(chan[p][q], "heartbeat")

\* Tab p is a leader on the broadcast transport that was not stopped.
LeaderRunning(p) ==
  tabPhase[p] = "running" /\ isActive[p] /\ ~useLocalStorage[p]

HeartbeatInFlight(p, q) == Count(chan[p][q], "heartbeat") > 0

\* Tab p becomes the leader in this step.
Activates(p) == ~isActive[p] /\ isActive'[p]

Destroys(p) == tabPhase[p] = "running" /\ tabPhase'[p] = "destroyed"

\* C32: on the storage transport destroy() removes the shared record
\* exactly when the tab is leader and the record names it; otherwise it
\* leaves the record as it is.
C32_RecordOwnershipOnShutdown ==
  [][\A p \in Peers :
       (Destroys(p) /\ useLocalStorage[p]) =>
          record' = IF isActive[p] /\ record # NoRecord /\ record.tabId = p
                      THEN NoRecord ELSE record]_vars

\* A leader on the storage transport was destroyed while the record named
\* another tab, and that record is still there.
C32_Witness ==
  \E p \in Peers :
     /\ tabPhase[p] = "destroyed" /\ useLocalStorage[p] /\ isActive[p]
     /\ ~heartbeatOn[p]
     /\ record # NoRecord /\ record.tabId # p

\* Tab p handles the storage event of an unparsable value.
GarbageEventHandled(p) ==
  /\ listening[p] /\ evq[p] # <<>> /\ Head(evq[p]) = Unparsable
  /\ evq'[p] = Tail(evq[p])

\* Leadership, the shared record and the evictions are as before.
ElectionUntouched ==
  isActive' = isActive /\ record' = record /\ dupRuns' = dupRuns

\* A tab that reads an unparsable record (when it starts, in its 300 ms
\* check, in its storage listener) changes nothing.
GarbageRecordDropped ==
  \A p \in Peers :
     (/\ record = Unparsable \/ GarbageEventHandled(p)
      /\ StorageStart(p) \/ ConfirmRuns(p) \/ GarbageEventHandled(p))
       => ElectionUntouched

\* An election message of a kind that has no case changes nothing.
UnknownMessageDropped ==
  \A s \in Peers : \A r \in Peers : Handled(s, r, "activated") => NoAction(s, r)

\* A frame that is no JSON changes nothing but the record of the last frame.
GarbageFrameDropped ==
  ws'.rx.json = "invalid" => ws' = [ws EXCEPT !.rx = ws'.rx, !.out = <<>>, !.tx = NoCall]

\* C33: an election message of unknown kind, a shared record that does not
\* parse and a connection frame that does not parse are dropped: isActive,
\* the record, the connection state and the flags stay as they are, and
\* nobody is evicted or logged out.
C33_MalformedInputChangesNothing ==
  [][GarbageRecordDropped /\ UnknownMessageDropped /\ GarbageFrameDropped]_vars

\* C34: a tab whose isActive is true keeps it true in every later state,
\* whatever message, storage event, timer or destroy() comes.
C34_LeadershipNeverLost ==
  [][\A p \in Peers : isActive[p] => isActive'[p]]_vars

\* A leader was destroyed while another tab leads as well, and its
\* isActive is still true.
C34_Witness ==
  \E p \in Peers : \E q \in Peers \ {p} :
     tabPhase[p] = "destroyed" /\ isActive[p] /\ isActive[q]

\* Tab p was opened and every other tab that was opened carries a strictly
\* larger creation timestamp.
Oldest(p) ==
  /\ tabTs[p] # 0
  /\ \A q \in Peers \ {p} : tabTs[q] # 0 => tabTs[p] < tabTs[q]

\* Handling a pong does not make the oldest tab run handleDuplicateTab.
PongSparesOldest ==
  \A s \in Peers : \A r \in Peers :
     (Handled(s, r, "pong") /\ Oldest(r)) => dupRuns'[r] = dupRuns[r]

\* C35: on the broadcast transport the tab with the strictly smallest
\* creation timestamp never runs the duplicate-tab handling; in particular
\* no pong makes it yield.
C35_OldestNeverEvicted ==
  /\ [](\A p \in Peers : Oldest(p) => dupRuns[p] = 0)
  /\ [][PongSparesOldest]_vars

\* A REGISTER_CHILD frame is sent on socket i in this step.
RegistrationSent(i) ==
  /\ i \in 1..Len(ws.socks)
  /\ ws'.socks[i].regs > ws.socks[i].regs

\* C36: on one WebSocket at most one REGISTER_CHILD frame is sent, and it
\* is sent only on the current socket, while it is OPEN, by a handler whose
\* userId is not empty.
C36_OneRegistrationPerSocket ==
  /\ [](\A i \in 1..Len(ws.socks) : ws.socks[i].regs <= 1)
  /\ [][\A i \in 1..MaxSockets :
          RegistrationSent(i) =>
             /\ ws.socks[i].regs = 0
             /\ ws'.socketRef = i /\ ws'.socks[i].state = "OPEN"
             /\ ws.socks[i].env.userId]_vars

\* The second socket of the wrapper is open and carries its registration.
C36_Witness ==
  /\ ws.socketRef = 2 /\ ws.socks[2].state = "OPEN"
  /\ ws.socks[2].regs = 1 /\ ws.hasRegistered

\* The current socket was created and has not opened, failed or closed.
CurrentSocketConnecting ==
  ws.socketRef # 0 /\ ws.socks[ws.socketRef].state = "CONNECTING"

\* The error or close event of a socket that is not the current one is
\* handled in this step.
StaleCloseHandled ==
  \E i \in 1..Len(ws.socks) : SocketCloses(i) /\ ws.socketRef # i

TimerFires_b == \E i \in bounded.timers : i \notin bounded'.timers
                                          /\ bounded'.phase = bounded.phase

\* A socket of the bounded-retry wrapper opens in this step.
Opens_b ==
  \E i \in 1..Len(bounded.socks) :
     bounded.socks[i].state = "CONNECTING" /\ bounded'.socks[i].state = "OPEN"

\* The counter is reset by an open and advanced by a timer that fires.
CounterSteps ==
  /\ Opens_b => (bounded'.reconnectCount = 0)
  /\ TimerFires_b => (bounded'.reconnectCount = bounded.reconnectCount + 1)

\* The counter is within its range and at most one timer is pending.
CounterInRange ==
  /\ 0 <= bounded.reconnectCount
  /\ bounded.reconnectCount <= bounded.reconnectAttempts
  /\ Cardinality(bounded.timers) <= 1

\* C38: in the bounded-retry wrapper the reconnect counter stays between 0
\* and reconnectAttempts, is 0 right after every open, goes up by one with
\* every reconnect timer that fires, and at most one reconnect timer is
\* pending.
C38_ReconnectCounterBound == []CounterInRange /\ [][CounterSteps]_vars

\* The wrapper used up its attempts and the last close gave up.
C38_Witness ==
  /\ bounded.reconnectAttempts >= 1
  /\ bounded.reconnectCount = bounded.reconnectAttempts
  /\ bounded.gaveUp

\* C39: over the lifetime of one tab the duplicate-tab sequence (post
\* focus_request, show the notice, schedule the close) runs at most once,
\* whatever pongs, heartbeats and claims the tab receives and whether or
\* not its PING_TIMEOUT fires afterwards.
C39_EvictionRunsOnce == \A p \in Peers : dupRuns[p] <= 1

====
